---- MODULE Spec2Model ----
(***************************************************************************)
(* Model of kiro_gateway/anthropic_converters.py: the conversion of an     *)
(* Anthropic Messages API request into a Kiro API payload, and of the      *)
(* request models of kiro_gateway/anthropic_models.py it works on.         *)
(*                                                                         *)
(* Python values are represented as follows.                               *)
(*   str            a TLA+ string                                          *)
(*   dict           a function whose domain is the set of keys present     *)
(*   list           a sequence                                             *)
(*   content        [kind |-> "str", v |-> s] or [kind |-> "list", v |-> l]*)
(*   content block  [isdict |-> b, f |-> fields]: a plain dict (isdict) or *)
(*                  a typed pydantic object, with its keys / attributes f  *)
(*   JSON value     [t |-> "null"], [t |-> "str", v |-> s],                *)
(*                  [t |-> "obj", v |-> dict], [t |-> "arr", v |-> seq]    *)
(*   object         an address into heap; AnthropicMessage objects and the *)
(*                  lists that hold them live on the heap, so aliasing and *)
(*                  in-place mutation are observable                       *)
(***************************************************************************)
EXTENDS Integers, Sequences, FiniteSets, TLC

VARIABLES
    pc,                  \* position in build_kiro_payload_from_anthropic
    heap,                \* address -> AnthropicMessage object or list object
    supplied,            \* the caller's input as supplied, before validation
    request_data,        \* the validated AnthropicMessagesRequest
    conversation_id,     \* argument
    profile_arn,         \* argument
    model_id,            \* local
    system_prompt,       \* local
    messages,            \* local: address of a list
    history_messages,    \* local: address of a list
    history,             \* local: list of Kiro history entries
    current_message,     \* local: address of an AnthropicMessage
    current_content,     \* local
    user_input_message,  \* local: dict
    payload,             \* the returned dict
    error                \* the raised exception, "" when none

vars == <<pc, heap, supplied, request_data, conversation_id, profile_arn,
          model_id, system_prompt, messages, history_messages, history,
          current_message, current_content, user_input_message, payload,
          error>>

\* Largest number of messages in a request.
MaxMessages == 3

-----------------------------------------------------------------------------
(* Python values *)

PyNone == "None"

EmptyDict == [k \in {} |-> k]

DictGet(d, k, default) == IF k \in DOMAIN d THEN d[k] ELSE default

StrContent(s) == [kind |-> "str", v |-> s]

ListContent(l) == [kind |-> "list", v |-> l]

NoneValue == [kind |-> "none"]

\* Python truthiness of a str / list / None value in tagged form.
Truthy(x) ==
    /\ x.kind \in {"str", "list"}
    /\ IF x.kind = "str" THEN x.v # "" ELSE Len(x.v) > 0

\* hasattr(block, a): a dict has none of the attributes the code asks for.
HasAttr(block, a) == ~block.isdict /\ a \in DOMAIN block.f

JNull == [t |-> "null"]

JStr(s) == [t |-> "str", v |-> s]

JObj(d) == [t |-> "obj", v |-> d]

JArr(l) == [t |-> "arr", v |-> l]

-----------------------------------------------------------------------------
(* anthropic_models.py *)

TextContent(text) == [isdict |-> FALSE, f |-> [type |-> "text", text |-> text]]

ImageContent(data) ==
    [isdict |-> FALSE,
     f |-> [type |-> "image",
            source |-> [type |-> "base64", media_type |-> "image/png", data |-> data]]]

ToolUseContent(id, name, input) ==
    [isdict |-> FALSE,
     f |-> [type |-> "tool_use", id |-> id, name |-> name, input |-> input]]

ToolResultContent(tool_use_id, content, is_error) ==
    [isdict |-> FALSE,
     f |-> [type |-> "tool_result", tool_use_id |-> tool_use_id,
            content |-> content, is_error |-> is_error]]

AnthropicMessage(role, content) ==
    [cls |-> "AnthropicMessage", role |-> role, content |-> content]

\* Validation of a supplied schema object: declared fields take their
\* defaults when absent, extra keys are kept (extra = "allow").
AnthropicToolInputSchema(raw) ==
    [ispydantic |-> TRUE,
     f |-> [k \in DOMAIN raw \cup {"type", "properties", "required"} |->
              IF k \in DOMAIN raw THEN raw[k]
              ELSE IF k = "type" THEN JStr("object") ELSE JNull]]

AnthropicTool(raw) ==
    [name |-> raw.name, description |-> raw.description,
     input_schema |-> AnthropicToolInputSchema(raw.input_schema)]

\* BaseModel.model_dump(exclude_none=True): fields and extras whose value is
\* None are left out; values inside a Dict[str, Any] field are kept as is.
model_dump_exclude_none(schema) ==
    [k \in {j \in DOMAIN schema.f : schema.f[j] # JNull} |-> schema.f[k]]

-----------------------------------------------------------------------------
(* anthropic_converters.py: content extraction *)

text_part(block) ==
    IF block.isdict
    THEN IF DictGet(block.f, "type", PyNone) = "text"
         THEN DictGet(block.f, "text", "")
         ELSE IF HasAttr(block, "text") THEN block.f.text ELSE ""
    ELSE IF HasAttr(block, "type") /\ block.f.type = "text"
         THEN block.f.text
         ELSE ""

RECURSIVE join_text_parts(_)
join_text_parts(blocks) ==
    IF blocks = <<>> THEN ""
    ELSE text_part(Head(blocks)) \o join_text_parts(Tail(blocks))

\* str(content) for a value that is neither str nor list.
PyStr(content) == IF content.kind = "str" THEN content.v ELSE PyNone

extract_text_from_content(content) ==
    IF content.kind = "str" THEN content.v
    ELSE IF content.kind = "list" THEN join_text_parts(content.v)
    ELSE PyStr(content)

tool_use_of(block) ==
    IF block.isdict
    THEN [name |-> DictGet(block.f, "name", ""),
          input |-> DictGet(block.f, "input", EmptyDict),
          toolUseId |-> DictGet(block.f, "id", "")]
    ELSE [name |-> block.f.name, input |-> block.f.input, toolUseId |-> block.f.id]

is_tool_use(block) ==
    IF block.isdict THEN DictGet(block.f, "type", PyNone) = "tool_use"
    ELSE HasAttr(block, "type") /\ block.f.type = "tool_use"

RECURSIVE tool_uses_of_blocks(_)
tool_uses_of_blocks(blocks) ==
    IF blocks = <<>> THEN <<>>
    ELSE (IF is_tool_use(Head(blocks)) THEN <<tool_use_of(Head(blocks))>> ELSE <<>>)
         \o tool_uses_of_blocks(Tail(blocks))

extract_tool_uses_from_content(content) ==
    IF content.kind = "list" THEN tool_uses_of_blocks(content.v) ELSE <<>>

result_text_of(result_content) ==
    IF result_content.kind = "list"
    THEN extract_text_from_content(result_content)
    ELSE PyStr(result_content)

tool_result_of(block) ==
    IF block.isdict
    THEN [content |-> <<[text |-> result_text_of(DictGet(block.f, "content", StrContent("")))]>>,
          status |-> IF DictGet(block.f, "is_error", PyNone) = "True"
                     THEN "error" ELSE "success",
          toolUseId |-> DictGet(block.f, "tool_use_id", "")]
    ELSE [content |-> <<[text |-> result_text_of(block.f.content)]>>,
          status |-> IF (IF HasAttr(block, "is_error") THEN block.f.is_error ELSE "False") = "True"
                     THEN "error" ELSE "success",
          toolUseId |-> block.f.tool_use_id]

is_tool_result(block) ==
    IF block.isdict THEN DictGet(block.f, "type", PyNone) = "tool_result"
    ELSE HasAttr(block, "type") /\ block.f.type = "tool_result"

RECURSIVE tool_results_of_blocks(_)
tool_results_of_blocks(blocks) ==
    IF blocks = <<>> THEN <<>>
    ELSE (IF is_tool_result(Head(blocks)) THEN <<tool_result_of(Head(blocks))>> ELSE <<>>)
         \o tool_results_of_blocks(Tail(blocks))

extract_tool_results_from_content(content) ==
    IF content.kind = "list" THEN tool_results_of_blocks(content.v) ELSE <<>>

-----------------------------------------------------------------------------
(* anthropic_converters.py: history and tools *)

\* kiro_gateway.config.get_internal_model_id: the external model-name to
\* internal-ID mapping.
get_internal_model_id(model) == "internal:" \o model

history_entry(msg, mid) ==
    IF msg.role = "user"
    THEN LET text_content == extract_text_from_content(msg.content)
             user_input == [content |-> text_content, modelId |-> mid,
                            origin |-> "AI_EDITOR"]
             tool_results == extract_tool_results_from_content(msg.content)
         IN <<"userInputMessage" :>
                (IF tool_results # <<>>
                 THEN user_input @@
                      ("userInputMessageContext" :> [toolResults |-> tool_results])
                 ELSE user_input)>>
    ELSE IF msg.role = "assistant"
    THEN LET text_content == extract_text_from_content(msg.content)
             assistant_response == [content |-> text_content]
             tool_uses == extract_tool_uses_from_content(msg.content)
         IN <<"assistantResponseMessage" :>
                (IF tool_uses # <<>>
                 THEN assistant_response @@ ("toolUses" :> tool_uses)
                 ELSE assistant_response)>>
    ELSE <<>>

RECURSIVE build_kiro_history_from_anthropic(_, _)
build_kiro_history_from_anthropic(msgs, mid) ==
    IF msgs = <<>> THEN <<>>
    ELSE history_entry(Head(msgs), mid)
         \o build_kiro_history_from_anthropic(Tail(msgs), mid)

kiro_tool(tool) ==
    LET input_schema == IF tool.input_schema.ispydantic
                        THEN model_dump_exclude_none(tool.input_schema)
                        ELSE tool.input_schema.f
    IN [toolSpecification |->
          [name |-> tool.name, description |-> tool.description,
           inputSchema |-> [json |-> input_schema]]]

convert_anthropic_tools_to_kiro(tools) ==
    IF ~Truthy(tools) THEN NoneValue
    ELSE ListContent([i \in 1..Len(tools.v) |-> kiro_tool(tools.v[i])])

-----------------------------------------------------------------------------
(* anthropic_converters.py: fragments of build_kiro_payload_from_anthropic *)

\* Variant: the guard also rejects a single message.
no_messages_off_by_one(items) == Len(items) <= 1

no_messages(items) == items = <<>>

resolve_system_prompt(system) ==
    IF Truthy(system)
    THEN IF system.kind = "str" THEN system.v
         ELSE IF system.kind = "list" THEN extract_text_from_content(system)
         ELSE ""
    ELSE ""

\* list(request_data.messages) and messages[:-1] if len(messages) > 1 else []
\* each allocate a new list object.
split_messages(h, src) ==
    LET items == h[src].items
        copy == [cls |-> "list", items |-> items]
        rest == [cls |-> "list",
                 items |-> IF Len(items) > 1 THEN SubSeq(items, 1, Len(items) - 1)
                           ELSE <<>>]
    IN [heap |-> h \o <<copy, rest>>,
        messages |-> Len(h) + 1,
        history_messages |-> Len(h) + 2]

with_system_prompt(sp, original_content) == sp \o "\n\n" \o original_content

\* Variant: the first message object is overwritten in place.
replace_first_message_in_place(h, hm, first_msg) ==
    [h EXCEPT ![h[hm].items[1]] = first_msg]

\* first_msg = AnthropicMessage(...); history_messages[0] = first_msg
replace_first_message(h, hm, first_msg) ==
    [Append(h, first_msg) EXCEPT ![hm].items[1] = Len(h) + 1]

deref(h, items) == [i \in 1..Len(items) |-> h[items[i]]]

\* Variant: the prefix is added whether or not there is history.
prefix_current_always(sp, hist, cc) ==
    IF sp # "" THEN with_system_prompt(sp, cc) ELSE cc

prefix_current(sp, hist, cc) ==
    IF sp # "" /\ hist = <<>> THEN with_system_prompt(sp, cc) ELSE cc

\* Variant: the empty-content guard is missing.
ensure_content_skipped(cc) == cc

ensure_content(cc) == IF cc = "" THEN "Continue" ELSE cc

\* Variant: the context object is attached even when empty.
attach_context_always(uim, ctx) == uim @@ ("userInputMessageContext" :> ctx)

attach_context(uim, ctx) ==
    IF DOMAIN ctx # {} THEN uim @@ ("userInputMessageContext" :> ctx) ELSE uim

build_context(tools, cur) ==
    LET kiro_tools == convert_anthropic_tools_to_kiro(tools)
        with_tools == IF Truthy(tools) /\ Truthy(kiro_tools)
                      THEN "tools" :> kiro_tools.v ELSE EmptyDict
        tool_results == extract_tool_results_from_content(cur.content)
        with_results == IF cur.role = "user" /\ tool_results # <<>>
                        THEN "toolResults" :> tool_results ELSE EmptyDict
    IN with_tools @@ with_results

build_payload(cid, uim, hist, arn) ==
    LET state == [chatTriggerType |-> "MANUAL", conversationId |-> cid,
                  currentMessage |-> [userInputMessage |-> uim]]
                 @@ (IF hist # <<>> THEN "history" :> hist ELSE EmptyDict)
    IN [conversationState |-> state]
       @@ (IF arn # "" THEN "profileArn" :> arn ELSE EmptyDict)

-----------------------------------------------------------------------------
(* The requests a caller can supply *)

DictBlock(f) == [isdict |-> TRUE, f |-> f]

SuppliedMessages ==
    { [role |-> "user", content |-> StrContent("")],
      [role |-> "user", content |-> StrContent("Hi")],
      [role |-> "user",
       content |-> ListContent(<<
           ToolResultContent("t1", StrContent("r1"), "True"),
           TextContent("ok"),
           ToolResultContent("t2",
               ListContent(<<TextContent("r2"), ImageContent("aGk=")>>), "None")>>)],
      [role |-> "user",
       content |-> ListContent(<<
           TextContent("U"), ImageContent("aGk="),
           DictBlock([type |-> "text", text |-> "V"]),
           DictBlock([type |-> "text"])>>)],
      [role |-> "assistant", content |-> StrContent("Hello")],
      [role |-> "assistant",
       content |-> ListContent(<<
           TextContent("call"),
           ToolUseContent("t1", "search", [q |-> "x"]),
           DictBlock([type |-> "tool_use", id |-> "t2", name |-> "open"])>>)],
      [role |-> "assistant",
       content |-> ListContent(<<
           DictBlock([type |-> "tool_result", tool_use_id |-> "t3"]),
           ToolResultContent("t4", StrContent("r4"), "False")>>)] }

SuppliedSystems ==
    { NoneValue, StrContent(""), StrContent("S"),
      ListContent(<<TextContent("S1"), TextContent("S2")>>) }

SchemaPlain ==
    [type |-> JStr("object"),
     properties |-> JObj([q |-> JObj([type |-> JStr("string")])]),
     required |-> JArr(<<JStr("q")>>)]

SchemaSparse ==
    [properties |-> JObj([n |-> JObj([type |-> JStr("string"), default |-> JNull])]),
     default |-> JNull]

SuppliedTools ==
    { NoneValue, ListContent(<<>>),
      ListContent(<<
          [name |-> "search", description |-> "Search", input_schema |-> SchemaPlain],
          [name |-> "open", description |-> "Open", input_schema |-> SchemaSparse]>>) }

SuppliedProfiles == {"", "arn:profile"}

SuppliedRequests ==
    [model : {"claude-sonnet-4"},
     messages : UNION {[1..n -> SuppliedMessages] : n \in 0..MaxMessages},
     system : SuppliedSystems,
     tools : SuppliedTools]

\* The validated request: one AnthropicMessage object per supplied message,
\* at addresses 1..n, and the list holding them at address n + 1.
validated_heap(req) ==
    [a \in 1..(Len(req.messages) + 1) |->
        IF a <= Len(req.messages)
        THEN AnthropicMessage(req.messages[a].role, req.messages[a].content)
        ELSE [cls |-> "list", items |-> [i \in 1..Len(req.messages) |-> i]]]

AnthropicMessagesRequest(req) ==
    [model |-> req.model,
     messages |-> Len(req.messages) + 1,
     system |-> req.system,
     tools |-> IF req.tools.kind = "list"
               THEN ListContent([i \in 1..Len(req.tools.v) |-> AnthropicTool(req.tools.v[i])])
               ELSE NoneValue]

-----------------------------------------------------------------------------
(* build_kiro_payload_from_anthropic, statement by statement *)

Init ==
    /\ supplied \in SuppliedRequests
    /\ heap = validated_heap(supplied)
    /\ request_data = AnthropicMessagesRequest(supplied)
    /\ conversation_id = "conv-1"
    /\ profile_arn \in SuppliedProfiles
    /\ pc = "start"
    /\ model_id = ""
    /\ system_prompt = ""
    /\ messages = 0
    /\ history_messages = 0
    /\ history = <<>>
    /\ current_message = 0
    /\ current_content = ""
    /\ user_input_message = EmptyDict
    /\ payload = EmptyDict
    /\ error = ""

args == <<supplied, request_data, conversation_id, profile_arn>>

CheckMessages ==
    /\ pc = "start"
    /\ IF no_messages(heap[request_data.messages].items)
       THEN /\ pc' = "raised"
            /\ error' = "ValueError"
            /\ model_id' = model_id
       ELSE /\ pc' = "system"
            /\ error' = error
            /\ model_id' = get_internal_model_id(request_data.model)
    /\ UNCHANGED <<args, heap, system_prompt, messages, history_messages, history,
                   current_message, current_content, user_input_message, payload>>

ExtractSystemPrompt ==
    /\ pc = "system"
    /\ system_prompt' = resolve_system_prompt(request_data.system)
    /\ pc' = "split"
    /\ UNCHANGED <<args, heap, model_id, messages, history_messages, history,
                   current_message, current_content, user_input_message, payload,
                   error>>

SplitMessages ==
    /\ pc = "split"
    /\ LET r == split_messages(heap, request_data.messages)
       IN /\ heap' = r.heap
          /\ messages' = r.messages
          /\ history_messages' = r.history_messages
    /\ pc' = "inject"
    /\ UNCHANGED <<args, model_id, system_prompt, history, current_message,
                   current_content, user_input_message, payload, error>>

InjectSystemPrompt ==
    /\ pc = "inject"
    /\ IF system_prompt # "" /\ heap[history_messages].items # <<>>
       THEN LET first_msg == heap[heap[history_messages].items[1]]
            IN IF first_msg.role = "user"
               THEN LET original_content == extract_text_from_content(first_msg.content)
                    IN heap' = replace_first_message(heap, history_messages,
                                  AnthropicMessage(first_msg.role,
                                      StrContent(with_system_prompt(system_prompt,
                                                                    original_content))))
               ELSE heap' = heap
       ELSE heap' = heap
    /\ pc' = "history"
    /\ UNCHANGED <<args, model_id, system_prompt, messages, history_messages, history,
                   current_message, current_content, user_input_message, payload,
                   error>>

BuildHistory ==
    /\ pc = "history"
    /\ history' = build_kiro_history_from_anthropic(
                      deref(heap, heap[history_messages].items), model_id)
    /\ current_message' = heap[messages].items[Len(heap[messages].items)]
    /\ current_content' = extract_text_from_content(heap[current_message'].content)
    /\ pc' = "prefix"
    /\ UNCHANGED <<args, heap, model_id, system_prompt, messages, history_messages,
                   user_input_message, payload, error>>

PrefixSystemPrompt ==
    /\ pc = "prefix"
    /\ current_content' = prefix_current(system_prompt, history, current_content)
    /\ pc' = "fold"
    /\ UNCHANGED <<args, heap, model_id, system_prompt, messages, history_messages,
                   history, current_message, user_input_message, payload, error>>

FoldAssistant ==
    /\ pc = "fold"
    /\ IF heap[current_message].role = "assistant"
       THEN /\ history' = Append(history,
                              "assistantResponseMessage" :> [content |-> current_content])
            /\ current_content' = "Continue"
       ELSE UNCHANGED <<history, current_content>>
    /\ pc' = "guard"
    /\ UNCHANGED <<args, heap, model_id, system_prompt, messages, history_messages,
                   current_message, user_input_message, payload, error>>

BuildUserInput ==
    /\ pc = "guard"
    /\ current_content' = ensure_content(current_content)
    /\ user_input_message' = [content |-> current_content', modelId |-> model_id,
                              origin |-> "AI_EDITOR"]
    /\ pc' = "context"
    /\ UNCHANGED <<args, heap, model_id, system_prompt, messages, history_messages,
                   history, current_message, payload, error>>

AddContext ==
    /\ pc = "context"
    /\ user_input_message' =
           attach_context(user_input_message,
                          build_context(request_data.tools, heap[current_message]))
    /\ pc' = "payload"
    /\ UNCHANGED <<args, heap, model_id, system_prompt, messages, history_messages,
                   history, current_message, current_content, payload, error>>

ReturnPayload ==
    /\ pc = "payload"
    /\ payload' = build_payload(conversation_id, user_input_message, history, profile_arn)
    /\ pc' = "returned"
    /\ UNCHANGED <<args, heap, model_id, system_prompt, messages, history_messages,
                   history, current_message, current_content, user_input_message,
                   error>>

Next ==
    \/ CheckMessages
    \/ ExtractSystemPrompt
    \/ SplitMessages
    \/ InjectSystemPrompt
    \/ BuildHistory
    \/ PrefixSystemPrompt
    \/ FoldAssistant
    \/ BuildUserInput
    \/ AddContext
    \/ ReturnPayload

Spec == Init /\ [][Next]_vars

-----------------------------------------------------------------------------
(* Properties *)

NumMessages == Len(supplied.messages)

LastSupplied == supplied.messages[NumMessages]

LastText == extract_text_from_content(LastSupplied.content)

CurrentInput == payload.conversationState.currentMessage.userInputMessage

PayloadHistory ==
    IF "history" \in DOMAIN payload.conversationState
    THEN payload.conversationState.history ELSE <<>>

EntryKind(e) == CHOOSE k \in DOMAIN e : TRUE

EntryBody(e) == e[EntryKind(e)]

HasBlockOfType(content, type) ==
    /\ content.kind = "list"
    /\ \E i \in 1..Len(content.v) :
          "type" \in DOMAIN content.v[i].f /\ content.v[i].f.type = type

\* C1: every request with at least one message returns a payload with exactly
\* one currentMessage.userInputMessage whose content is never the empty
\* string; when the resolved current text is empty the content is "Continue".
C1_CurrentContentNeverEmpty ==
    (pc = "returned" /\ NumMessages > 0) =>
        /\ DOMAIN payload.conversationState.currentMessage = {"userInputMessage"}
        /\ CurrentInput.content # ""
        /\ (LastText = "" /\ ~(system_prompt # "" /\ NumMessages = 1))
              => CurrentInput.content = "Continue"

C1_Witness ==
    /\ pc = "returned"
    /\ LastSupplied.role = "user"
    /\ LastText = ""
    /\ NumMessages > 1
    /\ CurrentInput.content = "Continue"

\* C2: the call raises ValueError exactly when the message list is empty: an
\* empty list raises and yields no payload, a non-empty list never raises
\* and runs on until it returns a payload.
C2_ErrorIffNoMessages ==
    /\ pc = "raised" => (NumMessages = 0 /\ error = "ValueError" /\ payload = EmptyDict)
    /\ NumMessages = 0 => (pc \in {"start", "raised"} /\ payload = EmptyDict)
    /\ NumMessages > 0 => (pc # "raised" /\ error = "")
    /\ (NumMessages > 0 /\ pc # "returned") => ENABLED Next
    /\ pc = "returned" => "conversationState" \in DOMAIN payload

C2_Witness == pc = "raised" /\ NumMessages = 0 /\ error = "ValueError"

\* C3: with a non-empty system prompt, at least two messages and a first
\* message of role user, history entry 0 is a userInputMessage whose content
\* is systemPrompt + "\n\n" + text of the first message, and every other
\* history entry and the current message carry only their own text.
C3_Applies ==
    /\ pc = "returned"
    /\ system_prompt # ""
    /\ NumMessages >= 2
    /\ supplied.messages[1].role = "user"

C3_SystemPromptInjectedOnce ==
    C3_Applies =>
        /\ Len(PayloadHistory) >= 1
        /\ DOMAIN PayloadHistory[1] = {"userInputMessage"}
        /\ PayloadHistory[1].userInputMessage.content =
              system_prompt \o "\n\n"
                 \o extract_text_from_content(supplied.messages[1].content)
        /\ Len(PayloadHistory) =
              IF LastSupplied.role = "assistant" THEN NumMessages ELSE NumMessages - 1
        /\ \A i \in 2..Len(PayloadHistory) :
              EntryBody(PayloadHistory[i]).content =
                 extract_text_from_content(supplied.messages[i].content)
        /\ CurrentInput.content =
              IF LastSupplied.role = "assistant" \/ LastText = ""
              THEN "Continue" ELSE LastText

C3_Witness ==
    /\ C3_Applies
    /\ NumMessages = 3
    /\ LastSupplied.role = "user"
    /\ LastText = "Hi"
    /\ PayloadHistory[1].userInputMessage.content = "S\n\nHi"

\* C4: a non-empty system prompt is never lost: when it was not injected
\* into history entry 0 (single message, or first history message of role
\* assistant), the resolved current-message text is prefixed with
\* systemPrompt + "\n\n".
C4_SystemPromptNeverLost ==
    (/\ pc = "fold"
     /\ system_prompt # ""
     /\ (NumMessages = 1 \/ supplied.messages[1].role = "assistant"))
       => current_content = system_prompt \o "\n\n" \o LastText

\* C5: when the last message has role assistant, history ends with an
\* assistantResponseMessage holding the resolved text of that message and,
\* when the message has tool_use blocks, a toolUses list of all of them in
\* order; the current content is exactly "Continue".
C5_AssistantTurnFolded ==
    (pc = "returned" /\ NumMessages > 0 /\ LastSupplied.role = "assistant") =>
        LET last == PayloadHistory[Len(PayloadHistory)]
        IN /\ Len(PayloadHistory) = NumMessages
           /\ DOMAIN last = {"assistantResponseMessage"}
           /\ last.assistantResponseMessage.content \in
                 {LastText, system_prompt \o "\n\n" \o LastText}
           /\ HasBlockOfType(LastSupplied.content, "tool_use") =>
                 /\ "toolUses" \in DOMAIN last.assistantResponseMessage
                 /\ last.assistantResponseMessage.toolUses =
                       extract_tool_uses_from_content(LastSupplied.content)
           /\ CurrentInput.content = "Continue"

\* C6: every user message that contains tool_result blocks yields a payload
\* entry (its history userInputMessage, or the currentMessage when it is the
\* last message) whose userInputMessageContext.toolResults has one record per
\* block, in order, with the block's tool_use_id and status; also for the
\* first history message when the system prompt is injected into it.
C6_ToolResultsPreserved ==
    pc = "returned" =>
        \A i \in 1..NumMessages :
            LET m == supplied.messages[i]
                entry == IF i < NumMessages
                         THEN EntryBody(PayloadHistory[i]) ELSE CurrentInput
            IN (m.role = "user" /\ HasBlockOfType(m.content, "tool_result")) =>
                  /\ "userInputMessageContext" \in DOMAIN entry
                  /\ "toolResults" \in DOMAIN entry.userInputMessageContext
                  /\ entry.userInputMessageContext.toolResults =
                        extract_tool_results_from_content(m.content)

\* C7: when tool definitions are supplied, the current message's context
\* holds one toolSpecification per definition, in order, with its name and
\* description and with inputSchema.json equal to the supplied schema object:
\* no key added, removed or changed, null-valued keys included.
C7_SchemaVerbatim ==
    (pc = "returned" /\ Truthy(supplied.tools)) =>
        /\ "userInputMessageContext" \in DOMAIN CurrentInput
        /\ "tools" \in DOMAIN CurrentInput.userInputMessageContext
        /\ LET tools == CurrentInput.userInputMessageContext.tools
           IN /\ Len(tools) = Len(supplied.tools.v)
              /\ \A i \in 1..Len(tools) :
                    /\ tools[i].toolSpecification.name = supplied.tools.v[i].name
                    /\ tools[i].toolSpecification.description =
                          supplied.tools.v[i].description
                    /\ tools[i].toolSpecification.inputSchema.json =
                          supplied.tools.v[i].input_schema

\* C8: the call never mutates its input: the request's message list keeps
\* its length, elements and order, every message keeps its role and content,
\* and the lists the call writes to are new lists.
C8_InputNotMutated ==
    /\ request_data = AnthropicMessagesRequest(supplied)
    /\ Len(heap) >= NumMessages + 1
    /\ heap[request_data.messages] =
          [cls |-> "list", items |-> [i \in 1..NumMessages |-> i]]
    /\ \A i \in 1..NumMessages :
          heap[i] = AnthropicMessage(supplied.messages[i].role,
                                     supplied.messages[i].content)
    /\ pc \notin {"start", "system", "split", "raised"} =>
          /\ messages # request_data.messages
          /\ history_messages \notin {messages, request_data.messages}

C8_Witness ==
    /\ pc = "returned"
    /\ Len(heap) = NumMessages + 4
    /\ heap[history_messages].items[1] = NumMessages + 4
    /\ heap[NumMessages + 4].content = StrContent("S\n\nHi")
    /\ LastSupplied.role = "assistant"

\* C9: optional payload parts are present exactly when they have content:
\* userInputMessageContext iff tools were supplied or the last message is a
\* user message with a tool_result block, and then it holds only the
\* applicable keys; history iff non-empty; profileArn iff the handle is
\* non-empty.
C9_ExpectedContextKeys ==
    (IF Truthy(supplied.tools) THEN {"tools"} ELSE {})
    \cup (IF LastSupplied.role = "user"
             /\ HasBlockOfType(LastSupplied.content, "tool_result")
          THEN {"toolResults"} ELSE {})

C9_OptionalPartsPresence ==
    pc = "returned" =>
        /\ "userInputMessageContext" \in DOMAIN CurrentInput
              <=> C9_ExpectedContextKeys # {}
        /\ "userInputMessageContext" \in DOMAIN CurrentInput =>
              DOMAIN CurrentInput.userInputMessageContext = C9_ExpectedContextKeys
        /\ "history" \in DOMAIN payload.conversationState <=> history # <<>>
        /\ "history" \in DOMAIN payload.conversationState =>
              payload.conversationState.history = history
        /\ history = <<>> <=> (NumMessages = 1 /\ LastSupplied.role = "user")
        /\ "profileArn" \in DOMAIN payload <=> profile_arn # ""
        /\ "profileArn" \in DOMAIN payload => payload.profileArn = profile_arn

C9_Witness ==
    /\ pc = "returned"
    /\ DOMAIN CurrentInput = {"content", "modelId", "origin"}
    /\ DOMAIN payload = {"conversationState"}
    /\ "history" \notin DOMAIN payload.conversationState

\* C10: the turns sent to the backend alternate: no two consecutive history
\* entries have the same shape, and the last history entry, when history is
\* present, is an assistantResponseMessage.
C10_TurnsAlternate ==
    (pc = "returned" /\ NumMessages > 0) =>
        /\ \A i \in 1..(Len(PayloadHistory) - 1) :
              EntryKind(PayloadHistory[i]) # EntryKind(PayloadHistory[i + 1])
        /\ PayloadHistory # <<>> =>
              EntryKind(PayloadHistory[Len(PayloadHistory)]) = "assistantResponseMessage"

====
